---------------------------- MODULE Spec2Model ----------------------------
(***************************************************************************)
(* Model of the per-symbol price route of novachain-backend                *)
(* (src/routes/prices.js, router.get("/:symbol")): the process-wide        *)
(* symbolCache, the wall clock, and concurrent requests, each suspended    *)
(* at one of its awaited provider calls; and of its staking routes         *)
(* (src/routes/earn.js): the tables user_balances and stakes, and          *)
(* concurrent transactions, each suspended at one of its awaited queries.  *)
(* Spec and FairSpec are the behaviours of the price route, EarnSpec those *)
(* of the staking routes.                                                  *)
(*                                                                         *)
(* A JavaScript value that may be a number, NaN, Infinity, null or         *)
(* undefined is a pair <<tag, v>>; Date.now() values are plain integers    *)
(* (milliseconds).                                                         *)
(***************************************************************************)
EXTENDS Integers, Sequences, FiniteSets, TLC

\* ------------------------------------------------------------- bounds
\* Number of requests that arrive (ids in order of arrival).
MaxReq == 2
\* The instants (ms since process start) at which something may happen: inside
\* and past the refresh window (10 s), at the end of and past the staleness
\* tolerance (5 min); 13000 and 308000 are the instants at which calls issued
\* at 5000 and at 300000 time out.
TimePoints == {0, 5000, 13000, 300000, 308000}

\* ---------------------------------------------------- program constants
LIST_REFRESH_MS == 10000
SYMBOL_STALE_OK_MS == 300000
\* axios.get(url, { timeout: 8000 })
AXIOS_TIMEOUT_MS == 8000

\* Crypto frontend id -> CoinGecko id
CG_ID == [bitcoin |-> "bitcoin", ethereum |-> "ethereum", tether |-> "tether",
          solana |-> "solana", ripple |-> "ripple", toncoin |-> "toncoin"]

\* Forex/commodity frontend id -> Twelve Data symbol
TWELVE_SYMBOL == [xau |-> "XAU/USD", xag |-> "XAG/USD", wti |-> "CL=F",
                  natgas |-> "NG=F", xcu |-> "HG=F", eurusd |-> "EUR/USD",
                  gbpusd |-> "GBP/USD", usdjpy |-> "USD/JPY", audusd |-> "AUD/USD"]

\* CG_ID, TWELVE_SYMBOL and symbolCache are plain object literals: a property
\* read that misses the object's own keys falls through to Object.prototype,
\* whose members (functions, truthy) have no field t.  These are the
\* prototype's keys that String.prototype.toLowerCase leaves unchanged.
ObjectPrototypeKeys == {"constructor", "__proto__"}

\* ------------------------------------------------------ JavaScript values
Num(v) == <<"num", v>>
NaN == <<"nan", 0>>
Infinity == <<"inf", 0>>
Null == <<"null", 0>>
Undefined == <<"undef", 0>>

\* Number(x)
ToNumber(x) ==
    CASE x[1] = "null" -> Num(0)
      [] x[1] = "undef" -> NaN
      [] OTHER -> x

\* the global isFinite(x), which coerces its argument with Number
IsFinite(x) == ToNumber(x)[1] = "num"

\* x <= 0 for a number x (false for NaN, false for +Infinity)
LeqZero(x) == x[1] = "num" /\ x[2] <= 0

\* JSON.stringify of a number field: NaN and Infinity are written as null
JsonNum(x) == IF x[1] \in {"nan", "inf"} THEN Null ELSE x

\* req.params.symbol.toLowerCase() on the identifiers the model sends
ToLowerCase(s) ==
    CASE s = "XAU" -> "xau"
      [] s = "TON/USDT" -> "ton/usdt"
      [] OTHER -> s

\* !!obj[key] for the two id tables (every own value is a non-empty string)
HasTruthyProp(obj, key) == key \in DOMAIN obj \/ key \in ObjectPrototypeKeys

isForexOrCommodity(apiSymbol) == HasTruthyProp(TWELVE_SYMBOL, ToLowerCase(apiSymbol))

isCrypto(apiSymbol) == HasTruthyProp(CG_ID, ToLowerCase(apiSymbol))

\* ----------------------------------------------------------- inputs
Reqs == 1..MaxReq

\* req.params.symbol
RawSymbols == {"bitcoin", "xau", "XAU", "doge", "constructor", "TON/USDT", "ton-usdt", "eth-usd"}

\* priceResponse?.price of the Twelve Data price endpoint (an error body,
\* sent with HTTP 200, has no price field)
RawPrices == {Num(1), Num(2), Num(0), Num(-1), Undefined, Infinity}

\* tsResponse of the Twelve Data time_series endpoint: no values, or one
\* daily record (with a number, a missing and a null field)
TsPayloads ==
    { [values |-> <<>>],
      [values |-> <<[high |-> Num(3), low |-> Undefined, volume |-> Null]>>] }

\* cgDataArr of the CoinGecko markets endpoint
CgPayloads ==
    { <<>>,
      <<[current_price |-> Num(1), high_24h |-> Num(3), low_24h |-> Num(1), total_volume |-> Num(9)]>>,
      <<[current_price |-> Num(2), high_24h |-> Undefined, low_24h |-> Null, total_volume |-> Num(9)]>>,
      <<[current_price |-> Null, high_24h |-> Num(3), low_24h |-> Num(1), total_volume |-> Num(9)]>>,
      <<[current_price |-> Undefined, high_24h |-> Num(3), low_24h |-> Num(1), total_volume |-> Num(9)]>> }

\* ------------------------------------------------------------- state
VARIABLES
    clock,        \* Date.now()
    apiKey,       \* whether process.env.TWELVE_API_KEY is set
    symbolCache,  \* own keys of symbolCache -> { t, price, high_24h, low_24h, volume_24h }
    arrived,      \* number of requests that have arrived
    pc,           \* per request: where its handler is suspended
    sym,          \* per request: requestedApiSymbol
    now,          \* per request: the handler's const now
    callAt,       \* per request: when the pending axios call was issued
    curPrice,     \* per request: currentPrice of the Twelve Data branch
    calls,        \* per request: axios calls issued so far
    resp          \* per request: the responses sent, in order

vars == <<clock, apiKey, symbolCache, arrived, pc, sym, now, callAt, curPrice, calls, resp>>

Pending(r) == pc[r] \in {"awaitPrice", "awaitTs", "awaitCg"}

\* ======================================================================
\* The staking routes (src/routes/earn.js): the tables user_balances and
\* stakes behind a PostgreSQL pool, and concurrent POST /stake and
\* POST /redeem requests, each a transaction suspended at one of its awaited
\* queries.  Amounts are whole units of the coin.
\* ======================================================================

\* ------------------------------------------------------------- bounds
\* Number of POST /stake and POST /redeem requests that arrive.
MaxTx == 2
\* The instants of the staking behaviours: one millisecond short of a day, a
\* day, and one millisecond past it.
EarnTimePoints == {0, 86399999, 86400000, 86400001}

\* ---------------------------------------------------- program constants
\* 1000 * 60 * 60 * 24
DAY_MS == 86400000

\* ----------------------------------------------------------- inputs
Txs == 1..MaxTx

\* req.user.id
Users == {"u1", "u2"}

\* req.body.coin
Coins == {"", "USDT"}

\* parseFloat(req.body.amount)
StakeAmounts == {NaN, Num(0), Num(2), Num(4)}

\* req.body.duration_days
Durations == {0, 1}

\* req.body.daily_rate (percent per day)
DailyRates == {100}

\* req.body.stakeId
StakeIds == {1, 2}

\* user_balances before the first request: u1 holds 3 USDT, u2 has no row
InitialBalances == [u \in {"u1"} |-> 3]

\* stakes before the first request: u1 staked 1 USDT for one day at instant 0
InitialStakes ==
    [i \in {1} |-> [user_id |-> "u1", amount |-> 1, daily_rate |-> 100,
                    duration_days |-> 1, end_date |-> DAY_MS, status |-> "ACTIVE"]]

\* ------------------------------------------------------------- state
VARIABLES
    balances,     \* committed user_balances rows (coin USDT): user -> balance
    stakes,       \* committed stakes rows: id -> row
    nextId,       \* the sequence behind stakes.id
    txArrived,    \* number of staking requests that have arrived
    tx,           \* per request: its handler's locals and its open transaction
    eresp,        \* per request: the responses sent, in order
    listing       \* the body of the last GET /stakes response

earnVars == <<balances, stakes, nextId, txArrived, tx, eresp, listing>>

\* what of the price route's state the staking routes never touch
priceVars == <<apiKey, symbolCache, arrived, pc, sym, now, callAt, curPrice, calls, resp>>

NoTx ==
    [kind |-> "", pc |-> "idle", user |-> "", amount |-> 0, days |-> 0, rate |-> 0,
     id |-> 0, start |-> 0, lockBal |-> FALSE, lockStake |-> FALSE,
     wrote |-> FALSE, newBal |-> 0]

EarnInit ==
    /\ balances = InitialBalances
    /\ stakes = InitialStakes
    /\ nextId = 2
    /\ txArrived = 0
    /\ tx = [r \in Txs |-> NoTx]
    /\ eresp = [r \in Txs |-> <<>>]
    /\ listing = {}

\* the state after construction: the price route's module-level state, and
\* the database as the process finds it
Init ==
    /\ clock = 0
    /\ apiKey \in BOOLEAN
    /\ symbolCache = <<>>
    /\ arrived = 0
    /\ pc = [r \in Reqs |-> "idle"]
    /\ sym = [r \in Reqs |-> ""]
    /\ now = [r \in Reqs |-> 0]
    /\ callAt = [r \in Reqs |-> 0]
    /\ curPrice = [r \in Reqs |-> Null]
    /\ calls = [r \in Reqs |-> 0]
    /\ resp = [r \in Reqs |-> <<>>]
    /\ EarnInit


\* ------------------------------------------------------- cache policy
\* mutant of FreshHit: the window taken in seconds
FreshHitSeconds(s, n) ==
    /\ s \in DOMAIN symbolCache
    /\ n - symbolCache[s].t < LIST_REFRESH_MS \div 1000

\* line 65: symbolCache[s] && now - symbolCache[s].t < LIST_REFRESH_MS
\* (a prototype member is truthy, but its t is undefined and NaN < x is false)
FreshHit(s, n) ==
    /\ s \in DOMAIN symbolCache
    /\ n - symbolCache[s].t < LIST_REFRESH_MS

\* mutant of StaleUsable: < for <=
StaleUsableStrict(s, n) ==
    /\ s \in DOMAIN symbolCache
    /\ n - symbolCache[s].t < SYMBOL_STALE_OK_MS

\* mutant of StaleUsable: any entry will do
StaleUsableAnyAge(s, n) == s \in DOMAIN symbolCache

\* line 180: symbolCache[s] && now - symbolCache[s].t <= SYMBOL_STALE_OK_MS
StaleUsable(s, n) ==
    /\ s \in DOMAIN symbolCache
    /\ n - symbolCache[s].t <= SYMBOL_STALE_OK_MS

\* mutant of InvalidPriceData: the sign is not checked
InvalidPriceDataNoSign(priceData) == ~IsFinite(priceData.price)

\* line 160: !priceData || !isFinite(priceData.price) || priceData.price <= 0
InvalidPriceData(priceData) ==
    \/ ~IsFinite(priceData.price)
    \/ LeqZero(ToNumber(priceData.price))

\* mutant of CacheWrite: a merge that keeps a field the new record lacks
CacheWriteMerge(cache, s, n, priceData) ==
    LET Keep(k) == IF priceData[k] = Null /\ s \in DOMAIN cache THEN cache[s][k] ELSE priceData[k]
    IN  [k \in DOMAIN cache \cup {s} |->
            IF k = s
            THEN [t |-> n, price |-> priceData.price, high_24h |-> Keep("high_24h"),
                  low_24h |-> Keep("low_24h"), volume_24h |-> Keep("volume_24h")]
            ELSE cache[k]]

\* mutant of CacheWrite: an entry is kept when its timestamp is later
CacheWriteIfNewer(cache, s, n, priceData) ==
    IF s \in DOMAIN cache /\ cache[s].t > n
    THEN cache
    ELSE [k \in DOMAIN cache \cup {s} |->
            IF k = s
            THEN [t |-> n, price |-> priceData.price, high_24h |-> priceData.high_24h,
                  low_24h |-> priceData.low_24h, volume_24h |-> priceData.volume_24h]
            ELSE cache[k]]

\* line 165: symbolCache[s] = { t: now, ...priceData }
CacheWrite(cache, s, n, priceData) ==
    [k \in DOMAIN cache \cup {s} |->
        IF k = s
        THEN [t |-> n, price |-> priceData.price, high_24h |-> priceData.high_24h,
              low_24h |-> priceData.low_24h, volume_24h |-> priceData.volume_24h]
        ELSE cache[k]]

\* ---------------------------------------------------------- responses
\* the number fields of an entry or of priceData as res.json writes them
JsonData(d) ==
    [price |-> JsonNum(d.price), high_24h |-> JsonNum(d.high_24h),
     low_24h |-> JsonNum(d.low_24h), volume_24h |-> JsonNum(d.volume_24h)]

\* lines 67-71: { symbol, ...symbolCache[s], cached: true }
CachedBody(s) ==
    [symbol |-> s, t |-> symbolCache[s].t, cached |-> TRUE] @@ JsonData(symbolCache[s])

\* lines 182-186: { symbol, ...symbolCache[s], stale: true }
StaleBody(s) ==
    [symbol |-> s, t |-> symbolCache[s].t, stale |-> TRUE] @@ JsonData(symbolCache[s])

\* line 168: { symbol, ...priceData }
LiveBody(s, priceData) == [symbol |-> s] @@ JsonData(priceData)

\* line 191: { error: "LIVE_DATA_UNAVAILABLE", symbol, detail: err.message }
ErrorBody(s, detail) == [error |-> "LIVE_DATA_UNAVAILABLE", symbol |-> s, detail |-> detail]

\* number of responses sent so far, over all requests
Sent == LET RECURSIVE Sum(_)
            Sum(k) == IF k = 0 THEN 0 ELSE Len(resp[k]) + Sum(k - 1)
        IN  Sum(MaxReq)

\* res.json / res.status(..).json followed by return: the handler is over.
\* "seq" numbers the responses in the order sent.
Respond(r, status, body) ==
    /\ resp' = [resp EXCEPT ![r] = Append(@, [status |-> status, body |-> body, seq |-> Sent + 1])]
    /\ pc' = [pc EXCEPT ![r] = "done"]
    /\ callAt' = [callAt EXCEPT ![r] = 0]
    /\ curPrice' = [curPrice EXCEPT ![r] = Null]
    /\ now' = [now EXCEPT ![r] = 0]

\* mutant of Catch: an entry found expired is deleted
CatchEvicting(r, s, n, detail) ==
    IF StaleUsable(s, n)
    THEN symbolCache' = symbolCache /\ Respond(r, 200, StaleBody(s))
    ELSE /\ symbolCache' = [k \in DOMAIN symbolCache \ {s} |-> symbolCache[k]]
         /\ Respond(r, 503, ErrorBody(s, detail))

\* mutant of Catch: no return after the stale response
CatchNoReturn(r, s, n, detail) ==
    /\ symbolCache' = symbolCache
    /\ resp' = [resp EXCEPT ![r] =
            IF StaleUsable(s, n)
            THEN @ \o <<[status |-> 200, body |-> StaleBody(s), seq |-> Sent + 1],
                        [status |-> 503, body |-> ErrorBody(s, detail), seq |-> Sent + 2]>>
            ELSE @ \o <<[status |-> 503, body |-> ErrorBody(s, detail), seq |-> Sent + 1]>>]
    /\ pc' = [pc EXCEPT ![r] = "done"]
    /\ callAt' = [callAt EXCEPT ![r] = 0]
    /\ curPrice' = [curPrice EXCEPT ![r] = Null]
    /\ now' = [now EXCEPT ![r] = 0]

\* lines 170-192: the catch block
Catch(r, s, n, detail) ==
    /\ symbolCache' = symbolCache
    /\ IF StaleUsable(s, n)
       THEN Respond(r, 200, StaleBody(s))
       ELSE Respond(r, 503, ErrorBody(s, detail))

\* lines 159-168: validate, update the cache, respond
ValidateAndRespond(r, s, n, priceData) ==
    IF InvalidPriceData(priceData)
    THEN Catch(r, s, n, "Invalid or zero price data processed")
    ELSE /\ symbolCache' = CacheWrite(symbolCache, s, n, priceData)
         /\ Respond(r, 200, LiveBody(s, priceData))

\* const { data } = await axios.get(url, { timeout: 8000 }): the call is
\* issued and the handler is suspended
IssueCall(r, where, n) ==
    /\ pc' = [pc EXCEPT ![r] = where]
    /\ callAt' = [callAt EXCEPT ![r] = clock]
    /\ calls' = [calls EXCEPT ![r] = @ + 1]
    /\ now' = [now EXCEPT ![r] = n]

\* ------------------------------------------------------------ actions
\* lines 58-90, 132-140, 154-157: a request arrives and its handler runs to
\* its first await or to its response.  (Line 84 cannot throw: twelveSymbol
\* is the very property that isForexOrCommodity found truthy.)
Request(raw) ==
    LET r == arrived + 1
        s == ToLowerCase(raw)
        n == clock
    IN  /\ arrived < MaxReq
        /\ arrived' = r
        /\ sym' = [sym EXCEPT ![r] = s]
        /\ UNCHANGED <<clock, apiKey, earnVars>>
        /\ IF FreshHit(s, n)
           THEN /\ Respond(r, 200, CachedBody(s))
                /\ UNCHANGED <<symbolCache, calls>>
           ELSE IF isForexOrCommodity(s)
           THEN IF ~apiKey
                THEN Catch(r, s, n, "Twelve Data API Key not configured") /\ UNCHANGED calls
                ELSE IssueCall(r, "awaitPrice", n) /\ UNCHANGED <<symbolCache, curPrice, resp>>
           ELSE IF isCrypto(s)
           THEN IssueCall(r, "awaitCg", n) /\ UNCHANGED <<symbolCache, curPrice, resp>>
           ELSE Catch(r, s, n, "Unsupported symbol/id") /\ UNCHANGED calls

\* the pending call may still deliver a response body
InTime(r) == clock - callAt[r] < AXIOS_TIMEOUT_MS

\* the pending call has run into its timeout
TimedOut(r) == clock - callAt[r] >= AXIOS_TIMEOUT_MS

\* lines 90-96, then 101-107: the Twelve Data price call settles
PriceReturn(r) ==
    /\ pc[r] = "awaitPrice"
    /\ UNCHANGED <<clock, apiKey, arrived, sym, earnVars>>
    /\ \/ Catch(r, sym[r], now[r], "Network Error") /\ UNCHANGED calls
       \/ TimedOut(r) /\ Catch(r, sym[r], now[r], "timeout of 8000ms exceeded") /\ UNCHANGED calls
       \/ \E p \in RawPrices :
            LET currentPrice == ToNumber(p)
            IN  /\ InTime(r)
                /\ IF ~IsFinite(currentPrice) \/ LeqZero(currentPrice)
                   THEN Catch(r, sym[r], now[r], "Invalid price received from Twelve Data price endpoint")
                        /\ UNCHANGED calls
                   ELSE /\ IssueCall(r, "awaitTs", now[r])
                        /\ curPrice' = [curPrice EXCEPT ![r] = currentPrice]
                        /\ UNCHANGED <<symbolCache, resp>>

\* lines 124-129: priceData of the Twelve Data branch
TwelvePriceData(currentPrice, high_24h, low_24h, volume_24h) ==
    [price |-> currentPrice,
     high_24h |-> IF IsFinite(high_24h) THEN high_24h ELSE Null,
     low_24h |-> IF IsFinite(low_24h) THEN low_24h ELSE Null,
     volume_24h |-> IF IsFinite(volume_24h) THEN volume_24h ELSE Null]

\* lines 110-117: high/low/volume from tsResponse
TsFields(tsResponse) ==
    IF Len(tsResponse.values) > 0
    THEN LET latestDailyData == tsResponse.values[1]
         IN  <<ToNumber(latestDailyData.high), ToNumber(latestDailyData.low),
               ToNumber(latestDailyData.volume)>>
    ELSE <<Null, Null, Null>>

\* mutant of TsReturn: a failure of the time series call is not caught and
\* fails the resolution
TsReturnStrict(r) ==
    /\ pc[r] = "awaitTs"
    /\ UNCHANGED <<clock, apiKey, arrived, sym, calls, earnVars>>
    /\ \/ Catch(r, sym[r], now[r], "Network Error")
       \/ \E tsResponse \in TsPayloads :
            LET f == TsFields(tsResponse)
            IN  /\ InTime(r)
                /\ ValidateAndRespond(r, sym[r], now[r], TwelvePriceData(curPrice[r], f[1], f[2], f[3]))

\* lines 104-130, 159-168: the time series call settles (its failure is
\* caught at 118-121 and leaves high/low/volume null)
TsReturn(r) ==
    /\ pc[r] = "awaitTs"
    /\ UNCHANGED <<clock, apiKey, arrived, sym, calls, earnVars>>
    /\ \/ ValidateAndRespond(r, sym[r], now[r], TwelvePriceData(curPrice[r], Null, Null, Null))
       \/ \E tsResponse \in TsPayloads :
            LET f == TsFields(tsResponse)
            IN  /\ InTime(r)
                /\ ValidateAndRespond(r, sym[r], now[r], TwelvePriceData(curPrice[r], f[1], f[2], f[3]))

\* lines 146-151: priceData of the CoinGecko branch
CgPriceData(marketData) ==
    [price |-> ToNumber(marketData.current_price),
     high_24h |-> ToNumber(marketData.high_24h),
     low_24h |-> ToNumber(marketData.low_24h),
     volume_24h |-> ToNumber(marketData.total_volume)]

\* lines 140-152, 159-168: the CoinGecko call settles
CgReturn(r) ==
    /\ pc[r] = "awaitCg"
    /\ UNCHANGED <<clock, apiKey, arrived, sym, calls, earnVars>>
    /\ \/ Catch(r, sym[r], now[r], "Network Error")
       \/ TimedOut(r) /\ Catch(r, sym[r], now[r], "timeout of 8000ms exceeded")
       \/ \E cgDataArr \in CgPayloads :
            /\ InTime(r)
            /\ IF Len(cgDataArr) = 0
               THEN Catch(r, sym[r], now[r], "No market data found from CoinGecko")
               ELSE ValidateAndRespond(r, sym[r], now[r], CgPriceData(cgDataArr[1]))

\* time passes; a pending call settles no later than its timeout
Tick(d) ==
    /\ d > clock
    /\ \A r \in Reqs : Pending(r) => d <= callAt[r] + AXIOS_TIMEOUT_MS
    /\ clock' = d
    /\ UNCHANGED <<apiKey, symbolCache, arrived, pc, sym, now, callAt, curPrice, calls, resp, earnVars>>

Next ==
    \/ \E raw \in RawSymbols : Request(raw)
    \/ \E r \in Reqs : PriceReturn(r)
    \/ \E r \in Reqs : TsReturn(r)
    \/ \E r \in Reqs : CgReturn(r)
    \/ \E d \in TimePoints : Tick(d)

\* ------------------------------------------------- the staking routes
\* request r is inside BEGIN .. COMMIT/ROLLBACK
InTx(r) == tx[r].pc \notin {"idle", "done"}

\* a row lock held by another open transaction
BalLocked(r, u) == \E q \in Txs \ {r} : InTx(q) /\ tx[q].user = u /\ tx[q].lockBal

StakeLocked(r, id) == \E q \in Txs \ {r} : InTx(q) /\ tx[q].id = id /\ tx[q].lockStake

\* res.status(..).json(..) / res.json(..) and return; the transaction is
\* over (COMMIT or ROLLBACK), finally client.release(), and the handler's
\* locals are gone (what the request was, kind, user and id, is kept)
EarnRespond(r, status, error) ==
    /\ eresp' = [eresp EXCEPT ![r] = Append(@, [status |-> status, error |-> error])]
    /\ tx' = [tx EXCEPT ![r] = [NoTx EXCEPT !.kind = tx[r].kind, !.user = tx[r].user,
                                            !.id = tx[r].id, !.pc = "done"]]

\* ------------------------------------------------------- POST /stake
\* line 55: !coin || isNaN(stakeAmount) || stakeAmount <= 0 || !duration_days
InvalidStake(coin, stakeAmount, duration_days) ==
    \/ coin = ""
    \/ stakeAmount[1] = "nan"
    \/ LeqZero(stakeAmount)
    \/ duration_days = 0

\* lines 50-62: the request arrives; validation, pool.connect(), BEGIN
StakeArrive(u, coin, stakeAmount, duration_days, daily_rate) ==
    LET r == txArrived + 1
    IN  /\ txArrived < MaxTx
        /\ txArrived' = r
        /\ IF InvalidStake(coin, stakeAmount, duration_days)
           THEN /\ eresp' = [eresp EXCEPT ![r] = Append(@, [status |-> 400, error |-> "Invalid staking details."])]
                /\ tx' = [tx EXCEPT ![r] = [NoTx EXCEPT !.kind = "stake", !.user = u, !.pc = "done"]]
           ELSE /\ eresp' = eresp
                /\ tx' = [tx EXCEPT ![r] =
                        [NoTx EXCEPT !.kind = "stake", !.user = u, !.pc = "select",
                                     !.amount = stakeAmount[2], !.days = duration_days,
                                     !.rate = daily_rate, !.start = clock]]
        /\ listing' = {}
        /\ UNCHANGED <<clock, balances, stakes, nextId, priceVars>>

\* line 69: parseFloat(balanceRes.rows[0]?.balance || 0)
CurrentBalance(u) == IF u \in DOMAIN balances THEN balances[u] ELSE 0

\* mutant of StakeSelect: SELECT without FOR UPDATE, which neither waits for
\* nor takes the row lock
StakeSelectNoLock(r) ==
    /\ tx[r].kind = "stake" /\ tx[r].pc = "select"
    /\ IF CurrentBalance(tx[r].user) < tx[r].amount
       THEN EarnRespond(r, 400, "Insufficient USDT balance.")
       ELSE /\ tx' = [tx EXCEPT ![r].pc = "update"]
            /\ eresp' = eresp
    /\ listing' = {}
    /\ UNCHANGED <<clock, balances, stakes, nextId, txArrived, priceVars>>

\* lines 64-74: SELECT balance .. FOR UPDATE (waits while another
\* transaction holds the row), then the balance check
StakeSelect(r) ==
    /\ tx[r].kind = "stake" /\ tx[r].pc = "select"
    /\ ~BalLocked(r, tx[r].user)
    /\ IF CurrentBalance(tx[r].user) < tx[r].amount
       THEN EarnRespond(r, 400, "Insufficient USDT balance.")
       ELSE /\ tx' = [tx EXCEPT ![r].pc = "update", ![r].lockBal = TRUE]
            /\ eresp' = eresp
    /\ listing' = {}
    /\ UNCHANGED <<clock, balances, stakes, nextId, txArrived, priceVars>>

\* lines 76-80: UPDATE user_balances SET balance = balance - $1 (a row
\* version of this transaction, on top of the latest committed one)
StakeUpdate(r) ==
    /\ tx[r].kind = "stake" /\ tx[r].pc = "update"
    /\ ~BalLocked(r, tx[r].user)
    /\ tx' = [tx EXCEPT ![r].pc = "insert", ![r].lockBal = TRUE, ![r].wrote = TRUE,
                        ![r].newBal = balances[tx[r].user] - tx[r].amount]
    /\ listing' = {}
    /\ UNCHANGED <<clock, balances, stakes, nextId, txArrived, eresp, priceVars>>

\* lines 82-88: INSERT INTO stakes; the id is drawn from the sequence
StakeInsert(r) ==
    /\ tx[r].kind = "stake" /\ tx[r].pc = "insert"
    /\ tx' = [tx EXCEPT ![r].pc = "commit", ![r].id = nextId]
    /\ nextId' = nextId + 1
    /\ listing' = {}
    /\ UNCHANGED <<clock, balances, stakes, txArrived, eresp, priceVars>>

\* the row of line 84-85: NOW() is the start of the transaction
NewStake(t) ==
    [user_id |-> t.user, amount |-> t.amount, daily_rate |-> t.rate,
     duration_days |-> t.days, end_date |-> t.start + t.days * DAY_MS,
     status |-> "ACTIVE"]

\* lines 90-91: COMMIT makes the deduction and the stake row visible
StakeCommit(r) ==
    /\ tx[r].kind = "stake" /\ tx[r].pc = "commit"
    /\ balances' = [balances EXCEPT ![tx[r].user] = tx[r].newBal]
    /\ stakes' = [i \in DOMAIN stakes \cup {tx[r].id} |->
                    IF i = tx[r].id THEN NewStake(tx[r]) ELSE stakes[i]]
    /\ EarnRespond(r, 200, "")
    /\ listing' = {}
    /\ UNCHANGED <<clock, nextId, txArrived, priceVars>>

\* mutant of TxFail: the catch block answers 500 but what the transaction
\* wrote so far is committed instead of rolled back
TxFailKeepsWrites(r) ==
    /\ InTx(r)
    /\ balances' = IF tx[r].wrote
                   THEN [u \in DOMAIN balances \cup {tx[r].user} |->
                            IF u = tx[r].user THEN tx[r].newBal ELSE balances[u]]
                   ELSE balances
    /\ EarnRespond(r, 500, IF tx[r].kind = "stake" THEN "Staking failed." ELSE "Redeem failed.")
    /\ listing' = {}
    /\ UNCHANGED <<clock, stakes, nextId, txArrived, priceVars>>

\* lines 93-96 and 164-167: an awaited query (COMMIT included) throws; the
\* catch block rolls back and answers 500
TxFail(r) ==
    /\ InTx(r)
    /\ EarnRespond(r, 500, IF tx[r].kind = "stake" THEN "Staking failed." ELSE "Redeem failed.")
    /\ listing' = {}
    /\ UNCHANGED <<clock, balances, stakes, nextId, txArrived, priceVars>>

\* ------------------------------------------------------ POST /redeem
\* lines 106-113: the request arrives; pool.connect(), BEGIN
RedeemArrive(u, stakeId) ==
    LET r == txArrived + 1
    IN  /\ txArrived < MaxTx
        /\ txArrived' = r
        /\ tx' = [tx EXCEPT ![r] =
                [NoTx EXCEPT !.kind = "redeem", !.user = u, !.pc = "rselect",
                             !.id = stakeId]]
        /\ listing' = {}
        /\ UNCHANGED <<clock, balances, stakes, nextId, eresp, priceVars>>

\* lines 138-144: principal + principal * (rate / 100) * days
TotalPayout(stake) ==
    stake.amount + (stake.amount * stake.daily_rate * stake.duration_days) \div 100

\* mutant of NotReady: the date is compared the other way round
NotReadyInverted(stake, d) == d >= stake.end_date

\* line 133: new Date() < new Date(stake.end_date)
NotReady(stake, d) == d < stake.end_date

\* mutant of RedeemRows: the stake is looked up by id alone
RedeemRowsAnyUser(stakeId, u) == {i \in DOMAIN stakes : i = stakeId}

\* lines 116-119: the rows WHERE id = $1 AND user_id = $2
RedeemRows(stakeId, u) == {i \in DOMAIN stakes : i = stakeId /\ stakes[i].user_id = u}

\* mutant of RedeemSelect: SELECT without FOR UPDATE
RedeemSelectNoLock(r) ==
    /\ tx[r].kind = "redeem" /\ tx[r].pc = "rselect"
    /\ IF RedeemRows(tx[r].id, tx[r].user) = {}
       THEN EarnRespond(r, 404, "Stake not found.")
       ELSE LET stake == stakes[tx[r].id]
            IN  IF stake.status # "ACTIVE"
                THEN EarnRespond(r, 400, "Stake already redeemed.")
                ELSE IF NotReady(stake, clock)
                THEN EarnRespond(r, 400, "Not ready to redeem yet.")
                ELSE /\ tx' = [tx EXCEPT ![r].pc = "pay", ![r].amount = TotalPayout(stake)]
                     /\ eresp' = eresp
    /\ listing' = {}
    /\ UNCHANGED <<clock, balances, stakes, nextId, txArrived, priceVars>>

\* lines 115-144: SELECT .. FOR UPDATE (waits while another transaction
\* holds the stake's row, then sees its latest committed version), the
\* checks, and the payout
RedeemSelect(r) ==
    /\ tx[r].kind = "redeem" /\ tx[r].pc = "rselect"
    /\ IF RedeemRows(tx[r].id, tx[r].user) = {}
       THEN EarnRespond(r, 404, "Stake not found.")
       ELSE LET stake == stakes[tx[r].id]
            IN  /\ ~StakeLocked(r, tx[r].id)
                /\ IF stake.status # "ACTIVE"
                   THEN EarnRespond(r, 400, "Stake already redeemed.")
                   ELSE IF NotReady(stake, clock)
                   THEN EarnRespond(r, 400, "Not ready to redeem yet.")
                   ELSE /\ tx' = [tx EXCEPT ![r].pc = "pay", ![r].lockStake = TRUE,
                                            ![r].amount = TotalPayout(stake)]
                        /\ eresp' = eresp
    /\ listing' = {}
    /\ UNCHANGED <<clock, balances, stakes, nextId, txArrived, priceVars>>

\* lines 146-153: INSERT INTO user_balances .. ON CONFLICT DO UPDATE SET
\* balance = balance + $3 (waits for the row, then adds to its latest
\* committed version)
RedeemPay(r) ==
    /\ tx[r].kind = "redeem" /\ tx[r].pc = "pay"
    /\ ~BalLocked(r, tx[r].user)
    /\ tx' = [tx EXCEPT ![r].pc = "mark", ![r].lockBal = TRUE, ![r].wrote = TRUE,
                        ![r].newBal = CurrentBalance(tx[r].user) + tx[r].amount]
    /\ listing' = {}
    /\ UNCHANGED <<clock, balances, stakes, nextId, txArrived, eresp, priceVars>>

\* lines 155-159: UPDATE stakes SET status = 'REDEEMED' WHERE id = $1
RedeemMark(r) ==
    /\ tx[r].kind = "redeem" /\ tx[r].pc = "mark"
    /\ ~StakeLocked(r, tx[r].id)
    /\ tx' = [tx EXCEPT ![r].pc = "rcommit", ![r].lockStake = TRUE]
    /\ listing' = {}
    /\ UNCHANGED <<clock, balances, stakes, nextId, txArrived, eresp, priceVars>>

\* lines 161-162: COMMIT makes the payout and the new status visible
RedeemCommit(r) ==
    /\ tx[r].kind = "redeem" /\ tx[r].pc = "rcommit"
    /\ balances' = [u \in DOMAIN balances \cup {tx[r].user} |->
                        IF u = tx[r].user THEN tx[r].newBal ELSE balances[u]]
    /\ stakes' = [stakes EXCEPT ![tx[r].id].status = "REDEEMED"]
    /\ EarnRespond(r, 200, "")
    /\ listing' = {}
    /\ UNCHANGED <<clock, nextId, txArrived, priceVars>>

\* -------------------------------------------------------- GET /stakes
\* Math.ceil(a / b) for b > 0
CeilDiv(a, b) == -((-a) \div b)

\* mutant of DaysLeft: the distance to end_date, whichever side
\* (Math.abs(end - now))
DaysLeftAbs(stake, d) ==
    LET diffTime == IF stake.end_date >= d THEN stake.end_date - d ELSE d - stake.end_date
        diffDays == CeilDiv(diffTime, DAY_MS)
    IN  IF diffDays > 0 THEN diffDays ELSE 0

\* lines 29-34: days_left
DaysLeft(stake, d) ==
    LET diffTime == stake.end_date - d
        diffDays == CeilDiv(diffTime, DAY_MS)
    IN  IF diffDays > 0 THEN diffDays ELSE 0

\* line 27: isReady = now >= end
CanRedeem(stake, d) == d >= stake.end_date

\* lines 12-39: the ACTIVE stakes of the user, each with days_left and
\* can_redeem as of now (the body is held until the next step)
GetStakes(u) ==
    /\ listing' = { [id |-> i, user_id |-> u, now |-> clock,
                     days_left |-> DaysLeft(stakes[i], clock),
                     can_redeem |-> CanRedeem(stakes[i], clock)] :
                    i \in {j \in DOMAIN stakes : stakes[j].user_id = u /\ stakes[j].status = "ACTIVE"} }
    /\ UNCHANGED <<clock, balances, stakes, nextId, txArrived, tx, eresp, priceVars>>

\* time passes
EarnTick(d) ==
    /\ d > clock
    /\ clock' = d
    /\ listing' = {}
    /\ UNCHANGED <<balances, stakes, nextId, txArrived, tx, eresp, priceVars>>

EarnNext ==
    \/ \E u \in Users, coin \in Coins, a \in StakeAmounts, d \in Durations, rate \in DailyRates :
            StakeArrive(u, coin, a, d, rate)
    \/ \E r \in Txs : StakeSelect(r)
    \/ \E r \in Txs : StakeUpdate(r)
    \/ \E r \in Txs : StakeInsert(r)
    \/ \E r \in Txs : StakeCommit(r)
    \/ \E u \in Users, i \in StakeIds : RedeemArrive(u, i)
    \/ \E r \in Txs : RedeemSelect(r)
    \/ \E r \in Txs : RedeemPay(r)
    \/ \E r \in Txs : RedeemMark(r)
    \/ \E r \in Txs : RedeemCommit(r)
    \/ \E r \in Txs : TxFail(r)
    \/ \E u \in Users : GetStakes(u)
    \/ \E d \in EarnTimePoints : EarnTick(d)

\* ------------------------------------------------------ specifications
\* the price route at work, the staking routes idle
Spec == Init /\ [][Next]_<<vars, earnVars>>

\* a pending provider call eventually settles: axios resolves or rejects
\* every call by its timeout, and the event loop then resumes the handler
FairSpec ==
    /\ Spec
    /\ WF_vars(\E r \in Reqs : PriceReturn(r) \/ TsReturn(r) \/ CgReturn(r))

\* the staking routes at work, the price route idle
EarnSpec == Init /\ [][EarnNext]_<<vars, earnVars>>

\* ------------------------------------------------- reading a behaviour
IsError(b) == "error" \in DOMAIN b
IsCached(b) == "cached" \in DOMAIN b
IsStale(b) == "stale" \in DOMAIN b
IsLive(b) == ~IsError(b) /\ ~IsCached(b) /\ ~IsStale(b)

\* request r is sent a response in this step, and which
Answers(r) == Len(resp'[r]) > Len(resp[r])
NewResp(r) == resp'[r][Len(resp'[r])]

\* request r's live resolution fails in this step: it is answered neither
\* from the fresh cache nor with live data
FailsNow(r) == Answers(r) /\ ~IsLive(NewResp(r).body) /\ ~IsCached(NewResp(r).body)

\* the instant request r arrived, seen from a step of its handler
ArrivedAt(r) == IF pc[r] = "idle" THEN clock ELSE now[r]

\* body b carries exactly the values of cache entry e
CarriesEntry(b, e) ==
    /\ b.t = e.t
    /\ b.price = JsonNum(e.price)
    /\ b.high_24h = JsonNum(e.high_24h)
    /\ b.low_24h = JsonNum(e.low_24h)
    /\ b.volume_24h = JsonNum(e.volume_24h)

\* the responses sent so far
Responses == UNION {{resp[r][i] : i \in 1..Len(resp[r])} : r \in Reqs}

\* ------------------------------------------------------------- claims

\* C1: whenever a request's live resolution fails while the cache holds an
\* entry for its symbol whose age (taken at the request's arrival or at the
\* failure) is at most SYMBOL_STALE_OK_MS, the response is HTTP 200 with that
\* entry's values and stale: true, never a 503.
C1_StaleServedOnFailure ==
    [][\A r \in Reqs :
        (/\ FailsNow(r)
         /\ NewResp(r).body.symbol \in DOMAIN symbolCache
         /\ LET e == symbolCache[NewResp(r).body.symbol]
            IN  \/ clock - e.t <= SYMBOL_STALE_OK_MS
                \/ ArrivedAt(r) - e.t <= SYMBOL_STALE_OK_MS)
        => /\ NewResp(r).status = 200
           /\ IsStale(NewResp(r).body)
           /\ NewResp(r).body.stale = TRUE
           /\ ~IsError(NewResp(r).body)
           /\ CarriesEntry(NewResp(r).body, symbolCache[NewResp(r).body.symbol])]_vars

\* C1 witness: a stale response was served for an entry exactly at the
\* tolerance (t = 0, request arrived at 300000).
C1_Witness ==
    \E r \in Reqs :
        /\ Len(resp[r]) = 1
        /\ resp[r][1].status = 200
        /\ IsStale(resp[r][1].body)
        /\ resp[r][1].body.t = 0
        /\ clock >= 300000

\* C2 (as claimed): a response served from the cache (cached or stale) never
\* carries an entry older than SYMBOL_STALE_OK_MS at the instant the response
\* is produced.
C2_ExpiredNeverServed ==
    [][\A r \in Reqs :
        (Answers(r) /\ (IsCached(NewResp(r).body) \/ IsStale(NewResp(r).body)))
        => clock - NewResp(r).body.t <= SYMBOL_STALE_OK_MS]_vars

\* C3: a request arriving while the cache holds an entry for its symbol of
\* age < LIST_REFRESH_MS is answered in the same step from that entry with
\* cached: true, issues no provider call and leaves the cache unchanged.
C3_FreshHit ==
    [][\A r \in Reqs :
        LET s == sym'[r]
        IN  (/\ pc[r] = "idle" /\ pc'[r] # "idle"
             /\ s \in DOMAIN symbolCache
             /\ clock - symbolCache[s].t < LIST_REFRESH_MS)
            => /\ pc'[r] = "done"
               /\ Len(resp'[r]) = 1
               /\ resp'[r][1].status = 200
               /\ IsCached(resp'[r][1].body)
               /\ resp'[r][1].body.cached = TRUE
               /\ CarriesEntry(resp'[r][1].body, symbolCache[s])
               /\ calls'[r] = 0
               /\ symbolCache' = symbolCache]_vars

\* C3 witness: a request was answered from the cache without a provider call
\* from an entry that was 5 s old.
C3_Witness ==
    \E r \in Reqs :
        /\ Len(resp[r]) = 1
        /\ IsCached(resp[r][1].body)
        /\ calls[r] = 0
        /\ resp[r][1].body.t = 0
        /\ clock = 5000

\* C4: whenever a request's live resolution fails while the cache holds no
\* entry for its symbol, or only one that was already beyond
\* SYMBOL_STALE_OK_MS when the request arrived, the response is HTTP 503 with
\* error LIVE_DATA_UNAVAILABLE and the symbol, and has no price field.
C4_TotalFailure ==
    [][\A r \in Reqs :
        (/\ FailsNow(r)
         /\ LET s == NewResp(r).body.symbol
            IN  \/ s \notin DOMAIN symbolCache
                \/ ArrivedAt(r) - symbolCache[s].t > SYMBOL_STALE_OK_MS)
        => /\ NewResp(r).status = 503
           /\ IsError(NewResp(r).body)
           /\ NewResp(r).body.error = "LIVE_DATA_UNAVAILABLE"
           /\ NewResp(r).body.symbol = sym'[r]
           /\ "price" \notin DOMAIN NewResp(r).body]_vars

\* C4 witness: a 503 for a symbol right after a live response for the same
\* symbol had written its entry, which has expired since.
C4_Witness ==
    \E r1, r2 \in Reqs :
        /\ Len(resp[r1]) = 1 /\ Len(resp[r2]) = 1
        /\ IsLive(resp[r1][1].body) /\ resp[r1][1].seq = 1
        /\ resp[r2][1].status = 503 /\ resp[r2][1].seq = 2
        /\ resp[r2][1].body.symbol = resp[r1][1].body.symbol


\* C5: every cache entry and every HTTP 200 response carries a finite price
\* strictly greater than 0 (the providers also deliver missing, null, zero,
\* negative and infinite prices).
C5_PriceValidity ==
    /\ \A s \in DOMAIN symbolCache :
        symbolCache[s].price[1] = "num" /\ symbolCache[s].price[2] > 0
    /\ \A x \in Responses :
        x.status = 200 =>
            /\ "price" \in DOMAIN x.body
            /\ x.body.price[1] = "num"
            /\ x.body.price[2] > 0

\* C5 witness: a provider delivered an unusable price (answered 503) and the
\* cache holds an entry.
C5_Witness ==
    /\ DOMAIN symbolCache # {}
    /\ \E x \in Responses :
        /\ x.status = 503
        /\ x.body.detail \in {"Invalid or zero price data processed",
                              "Invalid price received from Twelve Data price endpoint"}

\* C6: the cache changes only in a step that answers a request with live
\* data; a step that answers from the fresh cache, with stale data or with
\* 503 leaves every entry, timestamp included, as it was.
C6_OnlySuccessMutates ==
    [][/\ symbolCache' # symbolCache =>
            \E r \in Reqs : Answers(r) /\ NewResp(r).status = 200 /\ IsLive(NewResp(r).body)
       /\ \A r \in Reqs :
            (Answers(r) /\ ~IsLive(NewResp(r).body)) => symbolCache' = symbolCache]_vars

\* C6 witness: after a live response had written an entry, a request for the
\* same symbol failed (503, the entry having expired) and the entry is there.
C6_Witness ==
    \E x, y \in Responses :
        /\ IsLive(x.body) /\ x.seq = 1
        /\ y.status = 503 /\ y.seq = 2
        /\ y.body.symbol = x.body.symbol
        /\ x.body.symbol \in DOMAIN symbolCache
        /\ JsonData(symbolCache[x.body.symbol]) = [k \in {"price", "high_24h", "low_24h", "volume_24h"} |-> x.body[k]]

\* C7: a step that answers request r with live data for s leaves s's entry
\* with t = r's arrival instant and price, high_24h, low_24h, volume_24h those
\* of r's response (nothing of the previous entry), adds no other key and
\* changes no other entry; a cached or stale response carries one entry whole.
C7_WholeEntryReplaced ==
    [][\A r \in Reqs :
        /\ (Answers(r) /\ IsLive(NewResp(r).body)) =>
            LET b == NewResp(r).body
                s == b.symbol
            IN  /\ DOMAIN symbolCache' = DOMAIN symbolCache \cup {s}
                /\ symbolCache'[s].t = ArrivedAt(r)
                /\ DOMAIN symbolCache'[s] = {"t", "price", "high_24h", "low_24h", "volume_24h"}
                /\ \A k \in {"price", "high_24h", "low_24h", "volume_24h"} :
                        JsonNum(symbolCache'[s][k]) = b[k]
                /\ \A k \in DOMAIN symbolCache \ {s} : symbolCache'[k] = symbolCache[k]
        /\ (Answers(r) /\ (IsCached(NewResp(r).body) \/ IsStale(NewResp(r).body))) =>
            /\ NewResp(r).body.symbol \in DOMAIN symbolCache
            /\ CarriesEntry(NewResp(r).body, symbolCache[NewResp(r).body.symbol])]_vars

\* C7 witness: an entry with high/low/volume was replaced by a resolution
\* that has none, and the entry now has none.
C7_Witness ==
    \E x, y \in Responses :
        /\ IsLive(x.body) /\ IsLive(y.body)
        /\ x.seq = 1 /\ y.seq = 2
        /\ x.body.symbol = y.body.symbol
        /\ x.body.high_24h = Num(3)
        /\ y.body.high_24h = Null
        /\ symbolCache[y.body.symbol].high_24h = Null

\* the live responses for symbol s
LiveFor(s) == {x \in Responses : IsLive(x.body) /\ x.body.symbol = s}

\* C8: at every instant the entry of a symbol is the record of the live
\* response for it that was sent last, whatever the order in which the
\* requests arrived and whatever failed in between; a symbol without a live
\* response has no entry.
C8_LastSuccessfulWriteWins ==
    /\ \A s \in DOMAIN symbolCache : LiveFor(s) # {}
    /\ \A x \in Responses :
        (IsLive(x.body) /\ \A y \in LiveFor(x.body.symbol) : y.seq <= x.seq) =>
            /\ x.body.symbol \in DOMAIN symbolCache
            /\ \A k \in {"price", "high_24h", "low_24h", "volume_24h"} :
                    JsonNum(symbolCache[x.body.symbol][k]) = x.body[k]

\* C8 witness: two overlapping requests for one symbol, the one that arrived
\* first answered last, with another price; its record is the entry.
C8_Witness ==
    /\ Len(resp[1]) = 1 /\ Len(resp[2]) = 1
    /\ IsLive(resp[1][1].body) /\ IsLive(resp[2][1].body)
    /\ resp[1][1].body.symbol = resp[2][1].body.symbol
    /\ resp[1][1].seq = 2 /\ resp[2][1].seq = 1
    /\ resp[1][1].body.price # resp[2][1].body.price
    /\ symbolCache[resp[1][1].body.symbol].price = resp[1][1].body.price
    /\ symbolCache[resp[1][1].body.symbol].t = 0
    /\ clock = 13000

\* C9 (as claimed): right after a write of s's entry the entry is FRESH: its
\* age, the current time minus its stored timestamp, is below LIST_REFRESH_MS.
C9_WriteReentersFresh ==
    [][\A s \in DOMAIN symbolCache' :
        (s \notin DOMAIN symbolCache \/ symbolCache'[s] # symbolCache[s])
        => clock' - symbolCache'[s].t < LIST_REFRESH_MS]_vars

\* a response is one of: live, cached or stale data with 200, or 503 with
\* the error code
WellFormed(x) ==
    \/ /\ x.status = 200
       /\ ~IsError(x.body)
       /\ "price" \in DOMAIN x.body
       /\ ~(IsCached(x.body) /\ IsStale(x.body))
    \/ /\ x.status = 503
       /\ IsError(x.body)
       /\ x.body.error = "LIVE_DATA_UNAVAILABLE"
       /\ ~IsCached(x.body) /\ ~IsStale(x.body)

\* C10: a request never has more than one response, has exactly one once its
\* handler is over, every response is well formed, and (pending provider
\* calls settling) no request stays unanswered: again and again every request
\* that has arrived has its one response.
C10_AnsweredExactlyOnce ==
    /\ [](\A r \in Reqs :
            /\ Len(resp[r]) <= 1
            /\ (pc[r] = "done") <=> (Len(resp[r]) = 1)
            /\ \A i \in 1..Len(resp[r]) : WellFormed(resp[r][i]))
    /\ []<>(\A r \in Reqs : pc[r] # "idle" => (pc[r] = "done" /\ Len(resp[r]) = 1))

\* C10 witness: every request is answered, one of them with 503 after its
\* provider call timed out.
C10_Witness ==
    /\ \A r \in Reqs : pc[r] = "done" /\ Len(resp[r]) = 1
    /\ \E r \in Reqs :
        /\ resp[r][1].status = 503
        /\ resp[r][1].body.detail = "timeout of 8000ms exceeded"

\* the identifiers the two id tables are configured with
TableKeys == DOMAIN CG_ID \cup DOMAIN TWELVE_SYMBOL

\* C11 (as claimed): a request whose lower-cased symbol is a key of neither
\* id table is answered in the step it arrives, with 503
\* LIVE_DATA_UNAVAILABLE, without any provider call and without a change of
\* the cache.
C11_UnsupportedShortCircuits ==
    [][\A r \in Reqs :
        (pc[r] = "idle" /\ pc'[r] # "idle" /\ sym'[r] \notin TableKeys)
        => /\ calls'[r] = 0
           /\ symbolCache' = symbolCache
           /\ pc'[r] = "done"
           /\ Len(resp'[r]) = 1
           /\ resp'[r][1].status = 503
           /\ IsError(resp'[r][1].body)]_vars

\* high, low and volume of body b are all null
NoHighLowVolume(b) == b.high_24h = Null /\ b.low_24h = Null /\ b.volume_24h = Null

\* C12: in the forex/commodity branch the time series call is issued only
\* after the price call delivered a finite price > 0, and a request whose
\* price call fails is answered without a second call; whatever the time
\* series call does (also when it times out), the step that settles it
\* answers 200 with the price of the price call and writes the entry with
\* that price; high, low and volume of the response are those of the entry,
\* all three null unless the call delivered a daily record in time, and null
\* when it timed out.
C12_BestEffortSecondary ==
    [][\A r \in Reqs :
        /\ (pc[r] = "awaitPrice" /\ pc'[r] = "awaitTs") =>
            /\ curPrice'[r][1] = "num" /\ curPrice'[r][2] > 0
            /\ calls'[r] = calls[r] + 1
        /\ (pc[r] = "awaitPrice" /\ pc'[r] = "done") =>
            /\ calls'[r] = 1
            /\ ~IsLive(NewResp(r).body)
            /\ symbolCache' = symbolCache
        /\ (pc[r] = "awaitTs" /\ pc'[r] # "awaitTs") =>
            /\ pc'[r] = "done" /\ Answers(r)
            /\ NewResp(r).status = 200 /\ IsLive(NewResp(r).body)
            /\ NewResp(r).body.price = curPrice[r]
            /\ curPrice[r][1] = "num" /\ curPrice[r][2] > 0
            /\ sym[r] \in DOMAIN symbolCache'
            /\ symbolCache'[sym[r]].price = curPrice[r]
            /\ \A k \in {"high_24h", "low_24h", "volume_24h"} :
                    NewResp(r).body[k] = JsonNum(symbolCache'[sym[r]][k])
            /\ TimedOut(r) =>
                    /\ NoHighLowVolume(NewResp(r).body)
                    /\ NoHighLowVolume(symbolCache'[sym[r]])
            /\ \/ NoHighLowVolume(NewResp(r).body) /\ NoHighLowVolume(symbolCache'[sym[r]])
               \/ /\ InTime(r)
                  /\ \E tsResponse \in TsPayloads :
                        /\ Len(tsResponse.values) > 0
                        /\ NewResp(r).body.high_24h = JsonNum(ToNumber(tsResponse.values[1].high))]_vars

\* C12 witness: a request for xau that arrived at 0, had its price at 5000
\* and its time series call time out at 13000, is answered with live data
\* without high, low and volume, and the entry is written likewise.
C12_Witness ==
    \E r \in Reqs :
        /\ pc[r] = "done" /\ calls[r] = 2 /\ sym[r] = "xau"
        /\ Len(resp[r]) = 1 /\ IsLive(resp[r][1].body)
        /\ NoHighLowVolume(resp[r][1].body)
        /\ clock = 13000
        /\ symbolCache["xau"].t = 0
        /\ NoHighLowVolume(symbolCache["xau"])

\* C13 (as claimed): the crypto universe has a chain of adapters, the next
\* one tried whenever the previous one fails; so a request whose CoinGecko
\* call fails is answered with unavailability (503, or stale data) only
\* after a further adapter was called.
C13_FallbackChain ==
    [][\A r \in Reqs :
        (pc[r] = "awaitCg" /\ FailsNow(r)) => calls[r] > 1]_vars

\* the base asset the normalizer of the specification yields, in the
\* lower-case id space: a composite pair notation is split on "/" or "-"
\* and only its base kept
BaseAsset(raw) ==
    CASE raw \in {"TON/USDT", "ton-usdt"} -> "ton"
      [] raw = "eth-usd" -> "eth"
      [] raw = "XAU" -> "xau"
      [] OTHER -> raw

\* C14 (as claimed): the key under which a request looks up the cache and
\* dispatches is the base asset of its identifier, so that "TON/USDT" and
\* "ton-usdt" get one and the same key and "eth-usd" gets ETH's.
C14_NormalizerCorrect ==
    [][\A raw \in RawSymbols :
        Request(raw) => sym'[arrived'] = BaseAsset(raw)]_vars

\* C15 (as claimed): a write never replaces a symbol's entry by one with an
\* earlier timestamp.
C15_TimestampMonotonic ==
    [][\A s \in DOMAIN symbolCache \cap DOMAIN symbolCache' :
        symbolCache'[s].t >= symbolCache[s].t]_vars

\* C16 (as claimed): every key of the cache is a key of one of the two id
\* tables, and no response from the cache (cached or stale) is for a symbol
\* outside both tables.
C16_CacheKeyDomain ==
    /\ DOMAIN symbolCache \subseteq TableKeys
    /\ \A x \in Responses :
        (IsCached(x.body) \/ IsStale(x.body)) => x.body.symbol \in TableKeys

\* ------------------------------------------- claims on the staking routes
\* request r is sent a response in this step, and which
EarnAnswers(r) == Len(eresp'[r]) > Len(eresp[r])
EarnNewResp(r) == eresp'[r][Len(eresp'[r])]

\* the redeem requests that were answered 200 for stake i
PaidOut(i) ==
    {r \in Txs : /\ tx[r].kind = "redeem" /\ tx[r].id = i /\ tx[r].pc = "done"
                 /\ \E k \in 1..Len(eresp[r]) : eresp[r][k].status = 200}

\* the balance of user u, 0 without a row
BalanceOf(b, u) == IF u \in DOMAIN b THEN b[u] ELSE 0

\* C17, in every state: no stake has more than one redeem request answered
\* 200.
C17_PaidOutOnce == \A i \in DOMAIN stakes : Cardinality(PaidOut(i)) <= 1

\* C17: for any interleaving of redeem (and stake) requests, a stake has at
\* most one redeem request answered 200; a balance grows only in the step
\* that commits a redeem, by the payout of a stake that this very step takes
\* from ACTIVE to REDEEMED; a REDEEMED stake never is ACTIVE again; a redeem
\* request that reads its own stake REDEEMED is answered 400 "Stake already
\* redeemed."; and no redeem request answered otherwise than 200 changes a
\* balance or a stake.
C17_RedeemedAtMostOnce ==
    /\ []C17_PaidOutOnce
    /\ [][/\ \A u \in Users :
                BalanceOf(balances', u) > BalanceOf(balances, u) =>
                    \E r \in Txs :
                        /\ tx[r].kind = "redeem" /\ tx[r].user = u
                        /\ EarnAnswers(r) /\ EarnNewResp(r).status = 200
                        /\ stakes[tx[r].id].status = "ACTIVE"
                        /\ stakes'[tx[r].id].status = "REDEEMED"
                        /\ stakes[tx[r].id].user_id = u
                        /\ BalanceOf(balances', u) = BalanceOf(balances, u) + TotalPayout(stakes[tx[r].id])
          /\ \A i \in DOMAIN stakes :
                stakes[i].status = "REDEEMED" => (i \in DOMAIN stakes' /\ stakes'[i].status = "REDEEMED")
          /\ \A r \in Txs :
                (/\ tx[r].kind = "redeem" /\ tx[r].pc = "rselect" /\ tx'[r].pc = "done"
                 /\ tx[r].id \in DOMAIN stakes
                 /\ stakes[tx[r].id].user_id = tx[r].user
                 /\ stakes[tx[r].id].status = "REDEEMED"
                 /\ EarnNewResp(r).status # 500)
                => /\ EarnNewResp(r).status = 400
                   /\ EarnNewResp(r).error = "Stake already redeemed."
          /\ \A r \in Txs :
                (tx[r].kind = "redeem" /\ EarnAnswers(r) /\ EarnNewResp(r).status # 200)
                => balances' = balances /\ stakes' = stakes]_<<vars, earnVars>>

\* C17 witness: two overlapping redeem requests of u1 for stake 1; the one
\* that arrived second was paid (3 + 2), the one that arrived first was
\* rejected with "Stake already redeemed.".
C17_Witness ==
    /\ tx[1].kind = "redeem" /\ tx[2].kind = "redeem"
    /\ tx[1].id = 1 /\ tx[2].id = 1
    /\ tx[1].pc = "done" /\ tx[2].pc = "done"
    /\ eresp[2][1].status = 200
    /\ eresp[1][1] = [status |-> 400, error |-> "Stake already redeemed."]
    /\ stakes[1].status = "REDEEMED"
    /\ balances["u1"] = 5

\* the sum of the amounts of u's ACTIVE stakes among the rows st
RECURSIVE SumAmounts(_, _)
SumAmounts(st, ids) ==
    IF ids = {} THEN 0
    ELSE LET i == CHOOSE j \in ids : TRUE
         IN  st[i].amount + SumAmounts(st, ids \ {i})

ActiveOf(st, u) == {i \in DOMAIN st : st[i].user_id = u /\ st[i].status = "ACTIVE"}

Staked(st, u) == SumAmounts(st, ActiveOf(st, u))

\* C18, in every state reached without a redeem: the balance of a user plus
\* the amounts of the user's ACTIVE stakes is what it was initially.
C18_Conservation ==
    (\A i \in DOMAIN stakes : stakes[i].status = "ACTIVE") =>
        \A u \in Users :
            BalanceOf(balances, u) + Staked(stakes, u)
                = BalanceOf(InitialBalances, u) + Staked(InitialStakes, u)

\* C18: the step that answers a stake request 200 lowers the user's balance
\* by exactly the staked amount and adds exactly one ACTIVE stake row of that
\* amount for the user, changing nothing else; a stake request answered
\* otherwise (400, or 500 after a failure at any query, also between the
\* deduction and the insert) leaves balances and stakes as they were, and so
\* does every step of a stake request's transaction before its commit; and
\* as long as no stake is redeemed, balance plus ACTIVE stakes is conserved.
C18_StakeAtomic ==
    /\ []C18_Conservation
    /\ [][\A r \in Txs :
            /\ (tx[r].kind = "stake" /\ EarnAnswers(r) /\ EarnNewResp(r).status = 200) =>
                LET u == tx[r].user
                    new == DOMAIN stakes' \ DOMAIN stakes
                IN  /\ u \in DOMAIN balances
                    /\ balances' = [balances EXCEPT ![u] = balances[u] - tx[r].amount]
                    /\ Cardinality(new) = 1
                    /\ \A i \in new :
                            /\ stakes'[i].user_id = u
                            /\ stakes'[i].amount = tx[r].amount
                            /\ stakes'[i].status = "ACTIVE"
                    /\ \A i \in DOMAIN stakes : stakes'[i] = stakes[i]
            /\ (tx[r].kind = "stake" /\ tx'[r] # tx[r]
                /\ ~(EarnAnswers(r) /\ EarnNewResp(r).status = 200)) =>
                /\ balances' = balances
                /\ stakes' = stakes]_<<vars, earnVars>>

\* C18 witness: a stake request of u1 failed after its deduction and its
\* insert (id 2 was drawn and is no row), was answered 500, and a later one
\* committed: balance 3 - 2, stake 3 ACTIVE with amount 2.
C18_Witness ==
    /\ tx[1].kind = "stake" /\ tx[2].kind = "stake"
    /\ tx[1].pc = "done" /\ tx[2].pc = "done"
    /\ eresp[1][1] = [status |-> 500, error |-> "Staking failed."]
    /\ eresp[2][1].status = 200
    /\ DOMAIN stakes = {1, 3}
    /\ stakes[3].amount = 2 /\ stakes[3].status = "ACTIVE"
    /\ balances["u1"] = 1

\* C19, in every state: no committed balance is below 0.
C19_NonNegative == \A u \in DOMAIN balances : balances[u] >= 0

\* C19: no committed balance is ever below 0; a stake request whose
\* balance check finds less than its amount (or no row) is answered 400
\* "Insufficient USDT balance." and changes nothing; and a stake request
\* commits only when the committed balance at that instant covers its
\* amount, so that two overlapping stakes that together exceed the balance
\* never both commit.
C19_NeverNegative ==
    /\ []C19_NonNegative
    /\ [][\A r \in Txs :
            /\ (/\ tx[r].kind = "stake" /\ tx[r].pc = "select" /\ tx'[r].pc = "done"
                /\ BalanceOf(balances, tx[r].user) < tx[r].amount
                /\ EarnNewResp(r).status # 500)
               => /\ EarnNewResp(r) = [status |-> 400, error |-> "Insufficient USDT balance."]
                  /\ balances' = balances
                  /\ stakes' = stakes
            /\ (tx[r].kind = "stake" /\ EarnAnswers(r) /\ EarnNewResp(r).status = 200)
               => /\ BalanceOf(balances, tx[r].user) >= tx[r].amount
                  /\ BalanceOf(balances', tx[r].user) >= 0]_<<vars, earnVars>>

\* C19 witness: two overlapping stake requests of u1 for 2 each against a
\* balance of 3: the one that arrived second committed, the one that arrived
\* first was rejected, and the balance is 1.
C19_Witness ==
    /\ tx[1].kind = "stake" /\ tx[2].kind = "stake"
    /\ tx[1].user = "u1" /\ tx[2].user = "u1"
    /\ tx[1].pc = "done" /\ tx[2].pc = "done"
    /\ eresp[1][1] = [status |-> 400, error |-> "Insufficient USDT balance."]
    /\ eresp[2][1].status = 200
    /\ stakes[2].amount = 2
    /\ balances["u1"] = 1

\* C20, in every state: each stake of a GET /stakes body has can_redeem
\* true exactly when the instant of the listing is at or after its end_date
\* (when a redeem at that instant passes the date check), and exactly when
\* its days_left is 0.
C20_Listing ==
    \A item \in listing :
        /\ item.can_redeem <=> ~(item.now < stakes[item.id].end_date)
        /\ item.can_redeem <=> (item.days_left = 0)
        /\ item.days_left >= 0

\* C20: a redeem request is answered 200 only for a stake that exists,
\* belongs to the requesting user, is ACTIVE and whose end_date is not after
\* the current time; a request for a missing or another user's stake is
\* answered 404, one for an own ACTIVE stake before its end_date 400 "Not
\* ready to redeem yet."; no redeem request answered otherwise than 200
\* changes a balance or a stake; and the flags of GET /stakes agree with the
\* date check.
C20_NoEarlyOrForeign ==
    /\ []C20_Listing
    /\ [][\A r \in Txs :
            /\ (tx[r].kind = "redeem" /\ EarnAnswers(r) /\ EarnNewResp(r).status = 200) =>
                /\ tx[r].id \in DOMAIN stakes
                /\ stakes[tx[r].id].user_id = tx[r].user
                /\ stakes[tx[r].id].status = "ACTIVE"
                /\ clock >= stakes[tx[r].id].end_date
            /\ (/\ tx[r].kind = "redeem" /\ tx[r].pc = "rselect" /\ tx'[r].pc # "rselect"
                /\ ~(EarnAnswers(r) /\ EarnNewResp(r).status = 500)) =>
                LET i == tx[r].id
                IN  /\ (i \notin DOMAIN stakes \/ stakes[i].user_id # tx[r].user) <=>
                            (EarnAnswers(r) /\ EarnNewResp(r) = [status |-> 404, error |-> "Stake not found."])
                    /\ (/\ i \in DOMAIN stakes /\ stakes[i].user_id = tx[r].user
                        /\ stakes[i].status = "ACTIVE" /\ clock < stakes[i].end_date) <=>
                            (EarnAnswers(r) /\ EarnNewResp(r) = [status |-> 400, error |-> "Not ready to redeem yet."])
            /\ (tx[r].kind = "redeem" /\ EarnAnswers(r) /\ EarnNewResp(r).status # 200) =>
                /\ balances' = balances
                /\ stakes' = stakes]_<<vars, earnVars>>

\* C20 witness: one millisecond before stake 1's end_date, u2's redeem of it
\* was answered 404, u1's "Not ready to redeem yet.", nothing has changed, and
\* GET /stakes lists it with can_redeem false and days_left 1.
C20_Witness ==
    /\ clock = 86399999
    /\ tx[1].user = "u2" /\ tx[1].kind = "redeem" /\ tx[1].id = 1 /\ tx[1].pc = "done"
    /\ eresp[1][1] = [status |-> 404, error |-> "Stake not found."]
    /\ tx[2].user = "u1" /\ tx[2].kind = "redeem" /\ tx[2].id = 1 /\ tx[2].pc = "done"
    /\ eresp[2][1] = [status |-> 400, error |-> "Not ready to redeem yet."]
    /\ balances = InitialBalances /\ stakes = InitialStakes
    /\ \E item \in listing : item.id = 1 /\ ~item.can_redeem /\ item.days_left = 1

=============================================================================
